---------------------------- MODULE Spec2Model ----------------------------
(***************************************************************************)
(* A state-machine model of housing_price_analysis.py: the script seeds    *)
(* numpy's generator, builds a synthetic housing table, nulls some Price   *)
(* and Size cells, dumps the table to housing_data.csv, cleans it          *)
(* (fillna, astype, 3-sigma filter) and then runs the charting sections.   *)
(*                                                                         *)
(* Each statement group of the script is one action; pc is the position    *)
(* in the script.  Floating-point columns are modelled by exact rationals  *)
(* [n, d] (d > 0), NaN by 0/0 and the infinities by 1/0 and -1/0; integer  *)
(* columns are rationals with d = 1.  Rounding of float64 is not           *)
(* modelled.  The script is run twice (two processes) so that the          *)
(* reproducibility given by np.random.seed(42) can be observed.            *)
(*                                                                         *)
(* data["Price"].fillna(..., inplace=True) is modelled as updating the     *)
(* frame in place, which is what pandas does without copy-on-write.        *)
(***************************************************************************)
EXTENDS Integers, Sequences, FiniteSets, TLC

VARIABLES pc, run, rng, rngLog, data, csv, csvWrites, charts, monthly_sales,
          raw, firstRaw, imputed, cleaned

vars == <<pc, run, rng, rngLog, data, csv, csvWrites, charts, monthly_sales,
          raw, firstRaw, imputed, cleaned>>

----------------------------------------------------------------------------
(* Bounds.  The script uses 1000 rows, 50 Price picks and 30 Size picks;   *)
(* the model scales them down.  12 rows is the smallest table in which a   *)
(* row can be 3 sample standard deviations from the mean after another     *)
(* row has been removed.                                                   *)

n_samples == 12

NPriceNull == 2

NSizeNull == 1

seed == 42

\* Row positions 0 .. n_samples-1 (data.index is a RangeIndex).
Rows == 0 .. (n_samples - 1)

\* Rows whose drawn Price / Size may differ from the common value, and the
\* labels np.random.choice may return in the model: one of those rows and
\* one row with the common value.
VaryRows == {0, 1}

SampledRows == {1, 2}

----------------------------------------------------------------------------
(* float64 values as exact rationals.                                      *)

RECURSIVE GCD(_, _)
GCD(a, b) == IF b = 0 THEN a ELSE GCD(b, a % b)

Abs(x) == IF x < 0 THEN -x ELSE x

NaN == [n |-> 0, d |-> 0]

IsNaN(r) == r.d = 0 /\ r.n = 0

IsFinite(r) == r.d > 0

\* The rational num/den in lowest terms; x/0 is NaN or an infinity.
Rat(num, den) ==
    IF den = 0
    THEN [n |-> (IF num > 0 THEN 1 ELSE IF num < 0 THEN -1 ELSE 0), d |-> 0]
    ELSE LET s == IF den < 0 THEN -1 ELSE 1
             g == GCD(Abs(num), Abs(den))
         IN  [n |-> (s * num) \div g, d |-> (s * den) \div g]

Int2R(i) == [n |-> i, d |-> 1]

RAdd(a, b) ==
    IF ~IsFinite(a) \/ ~IsFinite(b)
    THEN IF IsNaN(a) \/ IsNaN(b) \/ (a.d = 0 /\ b.d = 0 /\ a.n # b.n)
         THEN NaN
         ELSE IF a.d = 0 THEN a ELSE b
    ELSE LET g == GCD(a.d, b.d)
             l == (a.d \div g) * b.d
         IN  Rat(a.n * (l \div a.d) + b.n * (l \div b.d), l)

RNeg(a) == [n |-> -a.n, d |-> a.d]

RSub(a, b) == RAdd(a, RNeg(b))

RMul(a, b) ==
    IF ~IsFinite(a) \/ ~IsFinite(b)
    THEN Rat(a.n * b.n, 0)
    ELSE LET g1 == GCD(Abs(a.n), b.d)
             g2 == GCD(Abs(b.n), a.d)
         IN  Rat((a.n \div g1) * (b.n \div g2), (a.d \div g2) * (b.d \div g1))

\* IEEE division: 0/0 is NaN, x/0 is an infinity.
RDiv(a, b) ==
    IF IsNaN(a) \/ IsNaN(b) \/ (a.d = 0 /\ b.d = 0) THEN NaN
    ELSE IF b.n = 0 THEN Rat(a.n, 0)
    ELSE IF b.d = 0 THEN Int2R(0)
    ELSE IF a.d = 0 THEN Rat(a.n * b.n, 0)
    ELSE RMul(a, [n |-> (IF b.n < 0 THEN -b.d ELSE b.d), d |-> Abs(b.n)])

\* a < b on floats: every comparison with NaN is False.
RLess(a, b) ==
    IF IsNaN(a) \/ IsNaN(b) THEN FALSE
    ELSE IF a.d = 0 THEN a.n < 0 /\ ~(b.d = 0 /\ b.n < 0)
    ELSE IF b.d = 0 THEN b.n > 0
    ELSE LET g == GCD(a.d, b.d)
         IN  a.n * (b.d \div g) < b.n * (a.d \div g)

\* int(x) for a finite float: truncation toward zero.
Trunc(r) == Int2R((IF r.n < 0 THEN -1 ELSE 1) * (Abs(r.n) \div r.d))

----------------------------------------------------------------------------
(* Series reductions of pandas, all with skipna=True.  A series is a       *)
(* sequence of floats.                                                     *)

NotNull(s) == SelectSeq(s, LAMBDA v : ~IsNaN(v))

RECURSIVE SumSeq(_)
SumSeq(s) == IF s = <<>> THEN Int2R(0) ELSE RAdd(Head(s), SumSeq(Tail(s)))

\* Series.mean(): NaN for a series with no non-null value.
Mean(s) ==
    LET v == NotNull(s)
    IN  IF v = <<>> THEN NaN ELSE RDiv(SumSeq(v), Int2R(Len(v)))

\* The k-th smallest (1-based) of a non-empty sequence of non-null values.
KthSmallest(v, k) ==
    CHOOSE x \in {v[i] : i \in 1..Len(v)} :
        /\ Cardinality({i \in 1..Len(v) : RLess(v[i], x)}) < k
        /\ Cardinality({i \in 1..Len(v) : ~RLess(x, v[i])}) >= k

\* Series.median(): the middle value, or the mean of the two middle values.
Median(s) ==
    LET v == NotNull(s)
        c == Len(v)
    IN  IF c = 0 THEN NaN
        ELSE IF c % 2 = 1 THEN KthSmallest(v, (c + 1) \div 2)
        ELSE RDiv(RAdd(KthSmallest(v, c \div 2), KthSmallest(v, c \div 2 + 1)),
                  Int2R(2))

\* Series.var() with pandas' default ddof=1: NaN for fewer than two values.
Var(s) ==
    LET v  == NotNull(s)
        mu == Mean(s)
        sq == [i \in 1..Len(v) |-> RMul(RSub(v[i], mu), RSub(v[i], mu))]
    IN  IF Len(v) < 2 THEN NaN ELSE RDiv(SumSeq(sq), Int2R(Len(v) - 1))

\* A z-score np.abs((x - mean) / std) is carried as its square (std is the
\* square root of Var): |x - mean| / std < 3 exactly when the square is
\* < 9, and the square is NaN exactly when the z-score is.
\* z < 3, on the square.
ZBelow3(zsq) == RLess(zsq, Int2R(9))

----------------------------------------------------------------------------
(* Calendar: pd.date_range(start="2023-01-01", periods=n, freq="D") and    *)
(* Series.dt.to_period("M").                                               *)

IsLeap(y) == (y % 4 = 0 /\ y % 100 # 0) \/ y % 400 = 0

DaysInMonth(y, m) ==
    IF m = 2 THEN (IF IsLeap(y) THEN 29 ELSE 28)
    ELSE IF m \in {4, 6, 9, 11} THEN 30 ELSE 31

NextDay(t) ==
    IF t.d < DaysInMonth(t.y, t.m) THEN [t EXCEPT !.d = t.d + 1]
    ELSE IF t.m < 12 THEN [y |-> t.y, m |-> t.m + 1, d |-> 1]
    ELSE [y |-> t.y + 1, m |-> 1, d |-> 1]

RECURSIVE AddDays(_, _)
AddDays(t, k) == IF k = 0 THEN t ELSE AddDays(NextDay(t), k - 1)

StartDate == [y |-> 2023, m |-> 1, d |-> 1]

\* The i-th element of the daily range: assigned by position, not drawn.
date_range(start, periods) == [i \in 0 .. (periods - 1) |-> AddDays(start, i)]

to_period_M(t) == [y |-> t.y, m |-> t.m]

to_timestamp(p) == [y |-> p.y, m |-> p.m, d |-> 1]

----------------------------------------------------------------------------
(* What the generator can return, bounded.  A draw of n normal values is   *)
(* an array that holds the typical value everywhere except on VaryRows.    *)

PriceVals == {Int2R(50), Int2R(51), Int2R(60)}

SizeVals == {Int2R(20), Int2R(30)}

NormalDraws(vals, typical) ==
    { [i \in Rows |-> IF i \in VaryRows THEN f[i] ELSE typical] :
        f \in [VaryRows -> vals] }

\* np.random.normal(500000, 100000, n_samples), in units of 10,000 USD.
PriceDraws == NormalDraws(PriceVals, Int2R(50))

\* np.random.normal(2000, 500, n_samples), in units of 100 sq ft.
SizeDraws == NormalDraws(SizeVals, Int2R(20))

Qualities == <<"Low", "Medium", "High">>

\* The five remaining draws of the DataFrame constructor: randint(1, 6),
\* randint(1, 4), randint(0, 50), normal(5, 2) and choice(Qualities).
OtherDraws ==
    { [Bedrooms      |-> [i \in Rows |-> Int2R(1 + ((i + k) % 5))],
       Bathrooms     |-> [i \in Rows |-> Int2R(1 + ((i + 2 * k) % 3))],
       Age           |-> [i \in Rows |-> Int2R((7 * i + 11 * k) % 50)],
       Distance_City |-> [i \in Rows |-> Rat(9 + i + k, 2)],
       Neighborhood_Quality |-> [i \in Rows |-> Qualities[1 + ((i + k) % 3)]]] :
        k \in {0, 1} }

\* A faulty variant of IndexDraws: one label too many is drawn.
IndexDrawsOneMore(k) == [1..(k + 1) -> SampledRows]

\* np.random.choice(data.index, k): k labels, replace=True by default, so
\* a label may come up more than once.
IndexDraws(k) == [1..k -> SampledRows]

----------------------------------------------------------------------------
(* numpy's global generator.  Its state is where it was seeded from and    *)
(* how many calls were made since; its output is a function of that state, *)
(* recorded in rngLog the first time a state is used.                      *)

\* The state a fresh process starts in: taken from OS entropy.
EntropyState(r) == [src |-> "entropy", val |-> (IF r = "first" THEN 1 ELSE 2), n |-> 0]

\* A faulty variant of SeededState: the generator is left as the process
\* found it.
SeededStateIgnored(s) == rng

\* np.random.seed(s)
SeededState(s) == [src |-> "seed", val |-> s, n |-> 0]

KeyAt(g, k) == <<g.src, g.val, g.n + k>>

\* The generator, in state g, may return outs[1], outs[2], ... on the next calls.
Replays(g, outs) ==
    \A k \in 1..Len(outs) :
        KeyAt(g, k - 1) \in DOMAIN rngLog => rngLog[KeyAt(g, k - 1)] = outs[k]

Logged(g, outs) ==
    [key \in DOMAIN rngLog \cup {KeyAt(g, k - 1) : k \in 1..Len(outs)} |->
        IF key \in DOMAIN rngLog THEN rngLog[key]
        ELSE outs[CHOOSE k \in 1..Len(outs) : KeyAt(g, k - 1) = key]]

Advance(g, k) == [g EXCEPT !.n = g.n + k]

----------------------------------------------------------------------------
(* The DataFrame: its column names and its rows, each row carrying its     *)
(* index label idx.                                                        *)

EmptyFrame == [columns |-> <<>>, rows |-> <<>>]

Columns8 == <<"Price", "Size", "Bedrooms", "Bathrooms", "Age", "Distance_City",
              "Neighborhood_Quality", "Sale_Date">>

DataFrame(price, size, other, dates) ==
    [columns |-> Columns8,
     rows |-> [p \in 1..n_samples |->
                [idx |-> p - 1,
                 Price |-> price[p - 1],
                 Size |-> size[p - 1],
                 Bedrooms |-> other.Bedrooms[p - 1],
                 Bathrooms |-> other.Bathrooms[p - 1],
                 Age |-> other.Age[p - 1],
                 Distance_City |-> other.Distance_City[p - 1],
                 Neighborhood_Quality |-> other.Neighborhood_Quality[p - 1],
                 Sale_Date |-> dates[p - 1]]]]

\* data[col] as a sequence, in row order.
Column(t, col) == [p \in 1..Len(t.rows) |-> t.rows[p][col]]

\* data.loc[labels, col] = np.nan
SetNaN(t, labels, col) ==
    [t EXCEPT !.rows = [p \in 1..Len(t.rows) |->
        IF t.rows[p].idx \in labels THEN [t.rows[p] EXCEPT ![col] = NaN]
        ELSE t.rows[p]]]

\* A faulty variant of FillNa: fillna without inplace=True, its result
\* dropped.
FillNaNotInPlace(t, col, value) == t

\* data[col].fillna(value, inplace=True)
FillNa(t, col, value) ==
    [t EXCEPT !.rows = [p \in 1..Len(t.rows) |->
        IF IsNaN(t.rows[p][col]) THEN [t.rows[p] EXCEPT ![col] = value]
        ELSE t.rows[p]]]

\* astype(float) of a numeric value, and astype(int) of a finite one.
AsFloat(v) == v

AsInt(v) == Trunc(v)

\* A faulty variant of AsTypes: Distance_City is cast to int as well.
AsTypesDistanceInt(t) ==
    [t EXCEPT !.rows = [p \in 1..Len(t.rows) |->
        [t.rows[p] EXCEPT !.Price = AsFloat(@),
                          !.Size = AsFloat(@),
                          !.Bedrooms = AsInt(@),
                          !.Bathrooms = AsInt(@),
                          !.Age = AsInt(@),
                          !.Distance_City = AsInt(@)]]]

\* The six astype assignments.
AsTypes(t) ==
    [t EXCEPT !.rows = [p \in 1..Len(t.rows) |->
        [t.rows[p] EXCEPT !.Price = AsFloat(@),
                          !.Size = AsFloat(@),
                          !.Bedrooms = AsInt(@),
                          !.Bathrooms = AsInt(@),
                          !.Age = AsInt(@),
                          !.Distance_City = AsFloat(@)]]]

\* np.abs((data[col] - data[col].mean()) / data[col].std()), squared,
\* as a function of the index label.
ZScores(t, col) ==
    LET s == Column(t, col)
        mu == Mean(s)
        var == Var(s)
    IN  [i \in {t.rows[p].idx : p \in 1..Len(t.rows)} |->
            LET x == (CHOOSE r \in {t.rows[p] : p \in 1..Len(t.rows)} : r.idx = i)[col]
                dev == RSub(x, mu)
            IN  RDiv(RMul(dev, dev), var)]

\* A faulty variant of KeepRow: | in place of &.
KeepRowEither(price_z, size_z, i) == ZBelow3(price_z[i]) \/ ZBelow3(size_z[i])

\* (price_z < 3) & (size_z < 3) for the row labelled i
KeepRow(price_z, size_z, i) == ZBelow3(price_z[i]) /\ ZBelow3(size_z[i])

\* A faulty variant of WithoutOutliers: the filter is applied a second
\* time, with the statistics of the rows the first pass kept.
WithoutOutliersRepeated(t) ==
    LET price_z == ZScores(t, "Price")
        size_z == ZScores(t, "Size")
        once == [t EXCEPT !.rows =
                    SelectSeq(t.rows, LAMBDA r : ZBelow3(price_z[r.idx])
                                                 /\ ZBelow3(size_z[r.idx]))]
        price_z2 == ZScores(once, "Price")
        size_z2 == ZScores(once, "Size")
    IN  [once EXCEPT !.rows =
            SelectSeq(once.rows, LAMBDA r : ZBelow3(price_z2[r.idx])
                                            /\ ZBelow3(size_z2[r.idx]))]

\* data[(price_z < 3) & (size_z < 3)]: one pass, rows kept in order.
WithoutOutliers(t) ==
    LET price_z == ZScores(t, "Price")
        size_z == ZScores(t, "Size")
    IN  [t EXCEPT !.rows = SelectSeq(t.rows, LAMBDA r : KeepRow(price_z, size_z, r.idx))]

\* A faulty variant of CsvImage: the rows with a missing cell are left out.
CsvImageDropNa(t) ==
    LET full == SelectSeq(t.rows, LAMBDA r : ~IsNaN(r.Price) /\ ~IsNaN(r.Size))
    IN  [header |-> t.columns,
         lines |-> [p \in 1..Len(full) |->
                     [c \in {t.columns[k] : k \in 1..Len(t.columns)} |-> full[p][c]]]]

\* data.to_csv("housing_data.csv", index=False): the header and one line
\* per row, without the index label; a NaN cell stays a missing cell.
CsvImage(t) ==
    [header |-> t.columns,
     lines |-> [p \in 1..Len(t.rows) |->
                 [c \in {t.columns[k] : k \in 1..Len(t.columns)} |-> t.rows[p][c]]]]

\* A faulty variant of WithMonth: the period is also stored over Sale_Date.
WithMonthOverSaleDate(t) ==
    [columns |-> Append(t.columns, "Month"),
     rows |-> [p \in 1..Len(t.rows) |->
                [f \in DOMAIN t.rows[p] \cup {"Month"} |->
                    IF f \in {"Month", "Sale_Date"}
                    THEN to_period_M(t.rows[p].Sale_Date)
                    ELSE t.rows[p][f]]]]

\* data["Month"] = data["Sale_Date"].dt.to_period("M")
WithMonth(t) ==
    [columns |-> (IF \E k \in 1..Len(t.columns) : t.columns[k] = "Month"
                  THEN t.columns ELSE Append(t.columns, "Month")),
     rows |-> [p \in 1..Len(t.rows) |->
                [f \in DOMAIN t.rows[p] \cup {"Month"} |->
                    IF f = "Month" THEN to_period_M(t.rows[p].Sale_Date)
                    ELSE t.rows[p][f]]]]

\* data.groupby("Month")["Price"].mean().reset_index(), Month then turned
\* into a timestamp: one line per month, in month order.
RECURSIVE MonthsInOrder(_)
MonthsInOrder(ms) ==
    IF ms = {} THEN <<>>
    ELSE LET first == CHOOSE a \in ms :
                        \A b \in ms : a.y * 12 + a.m <= b.y * 12 + b.m
         IN  <<first>> \o MonthsInOrder(ms \ {first})

MonthlySales(t) ==
    LET months == MonthsInOrder({t.rows[p].Month : p \in 1..Len(t.rows)})
    IN  [k \in 1..Len(months) |->
            [Month |-> to_timestamp(months[k]),
             Price |-> Mean(Column([t EXCEPT !.rows =
                          SelectSeq(t.rows, LAMBDA r : r.Month = months[k])], "Price"))]]

----------------------------------------------------------------------------
(* The script, statement group by statement group.                         *)

Init ==
    /\ pc = "seed"
    /\ run = "first"
    /\ rng = EntropyState("first")
    /\ rngLog = <<>>
    /\ data = EmptyFrame
    /\ csv = CsvImage(EmptyFrame)
    /\ csvWrites = 0
    /\ charts = {}
    /\ monthly_sales = <<>>
    /\ raw = EmptyFrame
    /\ firstRaw = EmptyFrame
    /\ imputed = EmptyFrame
    /\ cleaned = EmptyFrame

\* np.random.seed(42)
SeedRng ==
    /\ pc = "seed"
    /\ rng' = SeededState(seed)
    /\ pc' = "create"
    /\ UNCHANGED <<monthly_sales, run, rngLog, data, csv, csvWrites, charts,
                   raw, firstRaw, imputed, cleaned>>

\* data = pd.DataFrame({...}): seven draws, then the date range.
CreateDataset ==
    /\ pc = "create"
    /\ \E price \in PriceDraws, size \in SizeDraws, other \in OtherDraws :
         LET outs == <<price, size, other.Bedrooms, other.Bathrooms, other.Age,
                       other.Distance_City, other.Neighborhood_Quality>>
         IN  /\ Replays(rng, outs)
             /\ rngLog' = Logged(rng, outs)
             /\ rng' = Advance(rng, Len(outs))
             /\ data' = DataFrame(price, size, other,
                                  date_range(StartDate, n_samples))
    /\ pc' = "null_price"
    /\ UNCHANGED <<monthly_sales, run, csv, csvWrites, charts, raw, firstRaw, imputed, cleaned>>

\* data.loc[np.random.choice(data.index, 50), "Price"] = np.nan
NullPrice ==
    /\ pc = "null_price"
    /\ \E picks \in IndexDraws(NPriceNull) :
         /\ Replays(rng, <<picks>>)
         /\ rngLog' = Logged(rng, <<picks>>)
         /\ rng' = Advance(rng, 1)
         /\ data' = SetNaN(data, {picks[k] : k \in 1..Len(picks)}, "Price")
    /\ pc' = "null_size"
    /\ UNCHANGED <<monthly_sales, run, csv, csvWrites, charts, raw, firstRaw, imputed, cleaned>>

\* data.loc[np.random.choice(data.index, 30), "Size"] = np.nan
NullSize ==
    /\ pc = "null_size"
    /\ \E picks \in IndexDraws(NSizeNull) :
         /\ Replays(rng, <<picks>>)
         /\ rngLog' = Logged(rng, <<picks>>)
         /\ rng' = Advance(rng, 1)
         /\ data' = SetNaN(data, {picks[k] : k \in 1..Len(picks)}, "Size")
    /\ raw' = data'
    /\ pc' = "to_csv"
    /\ UNCHANGED <<monthly_sales, run, csv, csvWrites, charts, firstRaw, imputed, cleaned>>

\* data.to_csv("housing_data.csv", index=False)
ToCsv ==
    /\ pc = "to_csv"
    /\ csv' = CsvImage(data)
    /\ csvWrites' = csvWrites + 1
    /\ pc' = "fill_price"
    /\ UNCHANGED <<monthly_sales, run, rng, rngLog, data, charts, raw, firstRaw, imputed, cleaned>>

\* A faulty variant of FillPrice: the mean is used for Price too.
FillPriceWithMean ==
    /\ pc = "fill_price"
    /\ data' = FillNa(data, "Price", Mean(Column(data, "Price")))
    /\ pc' = "fill_size"
    /\ UNCHANGED <<monthly_sales, run, rng, rngLog, csv, csvWrites, charts,
                   raw, firstRaw, imputed, cleaned>>

\* data["Price"].fillna(data["Price"].median(), inplace=True)
FillPrice ==
    /\ pc = "fill_price"
    /\ data' = FillNa(data, "Price", Median(Column(data, "Price")))
    /\ pc' = "fill_size"
    /\ UNCHANGED <<monthly_sales, run, rng, rngLog, csv, csvWrites, charts,
                   raw, firstRaw, imputed, cleaned>>

\* data["Size"].fillna(data["Size"].mean(), inplace=True)
FillSize ==
    /\ pc = "fill_size"
    /\ data' = FillNa(data, "Size", Mean(Column(data, "Size")))
    /\ imputed' = data'
    /\ pc' = "astype"
    /\ UNCHANGED <<monthly_sales, run, rng, rngLog, csv, csvWrites, charts, raw, firstRaw, cleaned>>

\* data[c] = data[c].astype(...), six columns
EnsureTypes ==
    /\ pc = "astype"
    /\ data' = AsTypes(data)
    /\ pc' = "outliers"
    /\ UNCHANGED <<monthly_sales, run, rng, rngLog, csv, csvWrites, charts,
                   raw, firstRaw, imputed, cleaned>>

\* price_z, size_z and data = data[(price_z < 3) & (size_z < 3)]
RemoveOutliers ==
    /\ pc = "outliers"
    /\ data' = WithoutOutliers(data)
    /\ cleaned' = data'
    /\ pc' = "univariate"
    /\ UNCHANGED <<monthly_sales, run, rng, rngLog, csv, csvWrites, charts, raw, firstRaw, imputed>>

\* 3. Univariate Analysis: describe() and three saved figures
Univariate ==
    /\ pc = "univariate"
    /\ charts' = charts \cup {"price_distribution.png", "size_distribution.png",
                              "neighborhood_count.png"}
    /\ pc' = "bivariate"
    /\ UNCHANGED <<monthly_sales, run, rng, rngLog, data, csv, csvWrites,
                   raw, firstRaw, imputed, cleaned>>

\* 4. Bivariate Analysis: three saved figures
Bivariate ==
    /\ pc = "bivariate"
    /\ charts' = charts \cup {"price_vs_size.png", "price_vs_bedrooms.png",
                              "price_vs_neighborhood.png"}
    /\ pc' = "multivariate"
    /\ UNCHANGED <<monthly_sales, run, rng, rngLog, data, csv, csvWrites,
                   raw, firstRaw, imputed, cleaned>>

\* 5. Multivariate Analysis: corr() of a column selection, three figures
Multivariate ==
    /\ pc = "multivariate"
    /\ charts' = charts \cup {"correlation_matrix.png", "pair_plot.png",
                              "facet_grid.png"}
    /\ pc' = "timeseries"
    /\ UNCHANGED <<monthly_sales, run, rng, rngLog, data, csv, csvWrites,
                   raw, firstRaw, imputed, cleaned>>

\* 6. Time Series Analysis: the Month column, the monthly means, one figure
TimeSeries ==
    /\ pc = "timeseries"
    /\ data' = WithMonth(data)
    /\ monthly_sales' = MonthlySales(data')
    /\ charts' = charts \cup {"monthly_price_trend.png"}
    /\ pc' = "storytelling"
    /\ UNCHANGED <<run, rng, rngLog, csv, csvWrites, raw, firstRaw, imputed, cleaned>>

\* 7. Data Storytelling: a print, where the file ends
Storytelling ==
    /\ pc = "storytelling"
    /\ pc' = "done"
    /\ UNCHANGED <<monthly_sales, run, rng, rngLog, data, csv, csvWrites, charts,
                   raw, firstRaw, imputed, cleaned>>

\* The script is started again, in a new process: the files it wrote are
\* still there, nothing else is.
RunAgain ==
    /\ pc = "done"
    /\ run = "first"
    /\ run' = "second"
    /\ rng' = EntropyState("second")
    /\ data' = EmptyFrame
    /\ csvWrites' = 0
    /\ firstRaw' = raw
    /\ raw' = EmptyFrame
    /\ imputed' = EmptyFrame
    /\ cleaned' = EmptyFrame
    /\ monthly_sales' = <<>>
    /\ pc' = "seed"
    /\ UNCHANGED <<rngLog, csv, charts>>

Next ==
    \/ SeedRng
    \/ CreateDataset
    \/ NullPrice
    \/ NullSize
    \/ ToCsv
    \/ FillPrice
    \/ FillSize
    \/ EnsureTypes
    \/ RemoveOutliers
    \/ Univariate
    \/ Bivariate
    \/ Multivariate
    \/ TimeSeries
    \/ Storytelling
    \/ RunAgain

Spec == Init /\ [][Next]_vars

----------------------------------------------------------------------------
(* Properties.                                                             *)

PcSynthesized == {"to_csv", "fill_price", "fill_size", "astype", "outliers",
                  "univariate", "bivariate", "multivariate", "timeseries",
                  "storytelling", "done"}

PcImputed == {"astype", "outliers", "univariate", "bivariate", "multivariate",
              "timeseries", "storytelling", "done"}

PcCleaned == {"univariate", "bivariate", "multivariate", "timeseries",
              "storytelling", "done"}

PcCsvWritten == PcSynthesized \ {"to_csv"}

Positions(t) == 1..Len(t.rows)

Labels(t) == {t.rows[p].idx : p \in Positions(t)}

NullLabels(t, col) == {t.rows[p].idx : p \in {q \in Positions(t) : IsNaN(t.rows[q][col])}}

\* The count, the sum and the c-fold sum of squared deviations of a series,
\* from the sums of its values and of their squares: with c values, sum S
\* and sum of squares Q, the sample variance is (Q - S*S/c) / (c - 1).
SigmaStats(s) ==
    LET c == Len(s)
        S == SumSeq(s)
        Q == SumSeq([i \in 1..c |-> RMul(s[i], s[i])])
    IN  [c |-> c, S |-> S, ss |-> RSub(Q, RDiv(RMul(S, S), Int2R(c)))]

\* |x - mean| / std < 3 under the statistics st: the standard deviation is
\* not zero and (c - 1) * (x - S/c)^2 < 9 * (Q - S*S/c).
WithinThreeSigma(x, st) ==
    LET dev == RSub(x, RDiv(st.S, Int2R(st.c)))
    IN  /\ st.c >= 2
        /\ RLess(Int2R(0), st.ss)
        /\ RLess(RMul(Int2R(st.c - 1), RMul(dev, dev)), RMul(Int2R(9), st.ss))

PassiveColumns == {"Bedrooms", "Bathrooms", "Age", "Distance_City",
                   "Neighborhood_Quality", "Sale_Date"}

\* C1: from the end of imputation on, and so after the Cleaner has run, no
\* row of the table has a missing Price or a missing Size.
C1_NoNullsAfterCleaning ==
    pc \in PcImputed =>
        \A p \in Positions(data) :
            ~IsNaN(data.rows[p].Price) /\ ~IsNaN(data.rows[p].Size)

\* C1 witness: the Cleaner has run on a table with missing Price and Size
\* cells, and rows that had them are in the cleaned table.
C1_Witness ==
    /\ pc = "univariate"
    /\ NullLabels(raw, "Price") \cap Labels(data) # {}
    /\ NullLabels(raw, "Size") \cap Labels(data) # {}

\* C2: after cleaning, every retained row has |Price - mean| / std < 3 and
\* |Size - mean| / std < 3, strictly, with each column's mean and std taken
\* from the whole column after imputation and before any row is removed.
C2_RetainedWithinThreeSigma ==
    pc \in PcCleaned =>
        LET price == SigmaStats(Column(imputed, "Price"))
            size == SigmaStats(Column(imputed, "Size"))
        IN  \A p \in Positions(data) :
                /\ WithinThreeSigma(data.rows[p].Price, price)
                /\ WithinThreeSigma(data.rows[p].Size, size)

\* C2 witness: the filter removed a row for its Price alone, another for
\* its Size alone, and kept others.
C2_Witness ==
    /\ pc = "univariate"
    /\ Len(data.rows) > 0
    /\ LET price == SigmaStats(Column(imputed, "Price"))
           size == SigmaStats(Column(imputed, "Size"))
       IN  /\ \E p \in Positions(imputed) :
                /\ imputed.rows[p].idx \notin Labels(data)
                /\ ~WithinThreeSigma(imputed.rows[p].Price, price)
                /\ WithinThreeSigma(imputed.rows[p].Size, size)
           /\ \E p \in Positions(imputed) :
                /\ imputed.rows[p].idx \notin Labels(data)
                /\ WithinThreeSigma(imputed.rows[p].Price, price)
                /\ ~WithinThreeSigma(imputed.rows[p].Size, size)

\* C3 as stated: the synthesized table has exactly NPriceNull rows with a
\* missing Price and exactly NSizeNull rows with a missing Size.
C3_ExactNullCounts ==
    pc \in PcSynthesized =>
        /\ Cardinality(NullLabels(raw, "Price")) = NPriceNull
        /\ Cardinality(NullLabels(raw, "Size")) = NSizeNull

\* C3 amended: the synthesized table has at least one and at most
\* NPriceNull rows with a missing Price, at least one and at most NSizeNull
\* rows with a missing Size, and all n_samples rows.
C3_NullCountsAtMostPicks ==
    pc \in PcSynthesized =>
        /\ Len(raw.rows) = n_samples
        /\ Cardinality(NullLabels(raw, "Price")) \in 1..NPriceNull
        /\ Cardinality(NullLabels(raw, "Size")) \in 1..NSizeNull

\* C3 witness: a label was picked twice, so fewer than NPriceNull rows have
\* a missing Price.
C3_Witness ==
    /\ pc = "to_csv"
    /\ Cardinality(NullLabels(raw, "Price")) < NPriceNull

\* C4: imputation puts the median of the Price values that were not
\* missing into every missing Price, the mean of the Size values that were
\* not missing into every missing Size, and changes no other Price or Size.
\* (At most half of the values lie below a median and at most half above.)
C4_ImputationValues ==
    pc \in PcImputed =>
        LET prices == NotNull(Column(raw, "Price"))
            sizes == NotNull(Column(raw, "Size"))
            med == Median(prices)
            mean == RDiv(SumSeq(sizes), Int2R(Len(sizes)))
        IN  /\ Len(imputed.rows) = Len(raw.rows)
            /\ 2 * Cardinality({q \in 1..Len(prices) : RLess(prices[q], med)})
                 <= Len(prices)
            /\ 2 * Cardinality({q \in 1..Len(prices) : RLess(med, prices[q])})
                 <= Len(prices)
            /\ \A p \in Positions(raw) :
                 /\ imputed.rows[p].Price =
                      (IF IsNaN(raw.rows[p].Price) THEN med ELSE raw.rows[p].Price)
                 /\ imputed.rows[p].Size =
                      (IF IsNaN(raw.rows[p].Size) THEN mean ELSE raw.rows[p].Size)

\* C4 witness: imputation has run on a table with a missing Price and a
\* missing Size whose Price median and mean differ, as do those of Size.
C4_Witness ==
    /\ pc = "astype"
    /\ NullLabels(raw, "Price") # {}
    /\ NullLabels(raw, "Size") # {}
    /\ Median(Column(raw, "Price")) # Mean(Column(raw, "Price"))
    /\ Median(Column(raw, "Size")) # Mean(Column(raw, "Size"))

\* C5 as stated: when every Price is equal after imputation (zero standard
\* deviation) and every Size is within 3 standard deviations, the outlier
\* filter keeps every row.
C5_ZeroStdKeepsAllRows ==
    ( /\ pc \in PcCleaned
      /\ LET size == SigmaStats(Column(imputed, "Size"))
         IN  \A p \in Positions(imputed) :
                 /\ imputed.rows[p].Price = imputed.rows[1].Price
                 /\ WithinThreeSigma(imputed.rows[p].Size, size) )
    => Len(data.rows) = Len(imputed.rows)

\* C6: housing_data.csv is written once in a run, after the Synthesizer
\* and before the Cleaner: it holds the raw table, all n_samples rows with
\* their missing cells, and no later step rewrites it.
C6_CsvIsRawTable ==
    /\ (run = "first" /\ pc \notin PcCsvWritten) => (csvWrites = 0 /\ csv.lines = <<>>)
    /\ pc \notin PcCsvWritten => csvWrites = 0
    /\ pc \in PcCsvWritten =>
         /\ csvWrites = 1
         /\ csv.header = Columns8
         /\ Len(csv.lines) = n_samples
         /\ \A p \in 1..n_samples :
              /\ DOMAIN csv.lines[p] = {Columns8[k] : k \in 1..Len(Columns8)}
              /\ \A k \in 1..Len(Columns8) :
                   csv.lines[p][Columns8[k]] = raw.rows[p][Columns8[k]]
    /\ pc = "fill_price" => data = raw

\* C6 witness: the run is over, the Cleaner filled cells and removed rows,
\* and the file still has every row and the missing cells.
C6_Witness ==
    /\ pc = "done"
    /\ Len(data.rows) \in 1..(n_samples - 1)
    /\ Len(csv.lines) = n_samples
    /\ \E p \in 1..Len(csv.lines) : IsNaN(csv.lines[p]["Price"])
    /\ \E p \in 1..Len(csv.lines) : IsNaN(csv.lines[p]["Size"])

\* C7 as stated: once the Cleaner has finished, no later stage adds,
\* removes or changes a row, a column or a value of the table.
C7_CleanedTableImmutable ==
    pc \in PcCleaned => (data.columns = cleaned.columns /\ data.rows = cleaned.rows)

\* C7 amended: once the Cleaner has finished, no later stage removes or
\* reorders a row or changes a value of the eight columns; the univariate,
\* bivariate and multivariate stages leave the table as it is, and the
\* time-series stage adds one column, Month, the year and month of
\* Sale_Date.
C7_DownstreamOnlyAddsMonth ==
    pc \in PcCleaned =>
        /\ Len(data.rows) = Len(cleaned.rows)
        /\ \A p \in Positions(cleaned) :
             \A f \in DOMAIN cleaned.rows[p] : data.rows[p][f] = cleaned.rows[p][f]
        /\ pc \in {"univariate", "bivariate", "multivariate", "timeseries"} =>
             (data.columns = cleaned.columns /\ data.rows = cleaned.rows)
        /\ pc \in {"storytelling", "done"} =>
             /\ data.columns = Append(cleaned.columns, "Month")
             /\ \A p \in Positions(data) :
                  /\ DOMAIN data.rows[p] = DOMAIN cleaned.rows[p] \cup {"Month"}
                  /\ data.rows[p].Month.y = data.rows[p].Sale_Date.y
                  /\ data.rows[p].Month.m = data.rows[p].Sale_Date.m

\* C7 witness: the time-series stage has run on a table that has rows.
C7_Witness ==
    /\ pc = "storytelling"
    /\ Len(data.rows) > 0
    /\ Len(data.columns) = Len(cleaned.columns) + 1

\* C8: a second run with the same seed and sample count synthesizes the
\* table of the first run, cell for cell, with the same missing cells, and
\* in each run Sale_Date is the run of consecutive days from 2023-01-01 in
\* row order.
C8_SameSeedSameTable ==
    pc \in PcSynthesized =>
        /\ run = "second" => raw = firstRaw
        /\ \A p \in Positions(raw) :
             p <= 31 => raw.rows[p].Sale_Date = [y |-> 2023, m |-> 1, d |-> p]

\* C8 witness: the second run has synthesized a table whose Price and Size
\* draws vary and which has missing cells.
C8_Witness ==
    /\ run = "second"
    /\ pc = "to_csv"
    /\ Len(raw.rows) = n_samples
    /\ NullLabels(raw, "Price") # {}
    /\ \E p \in Positions(raw) : raw.rows[p].Price = Int2R(60)
    /\ \E p \in Positions(raw) : raw.rows[p].Size = Int2R(30)

\* C9: the Cleaner adds and reorders no row: at every point after
\* synthesis the table has at most n_samples rows, they are rows of
\* the synthesized table in their original order, and each has its
\* original Bedrooms, Bathrooms, Age, Distance_City, Neighborhood_Quality
\* and Sale_Date.
C9_CleanedIsSubsequence ==
    pc \in PcSynthesized =>
        /\ Len(data.rows) <= n_samples
        /\ \A p \in Positions(data) : \A q \in Positions(data) :
             p < q => data.rows[p].idx < data.rows[q].idx
        /\ \A p \in Positions(data) :
             /\ data.rows[p].idx \in Labels(raw)
             /\ \A f \in PassiveColumns :
                  data.rows[p][f] = raw.rows[data.rows[p].idx + 1][f]

\* C9 witness: the Cleaner removed the first row and kept later ones, among
\* them a row whose Distance_City is not a whole number.
C9_Witness ==
    /\ pc = "univariate"
    /\ Len(data.rows) \in 1..(n_samples - 1)
    /\ data.rows[1].idx # 0
    /\ \E p \in Positions(data) : data.rows[p].Distance_City.d # 1

\* C10: outlier removal is one pass: every row whose Price and Size are
\* both within 3 standard deviations of the mean of the table as it was
\* after imputation is retained.
C10_SinglePassKeepsInliers ==
    pc \in PcCleaned =>
        LET price == SigmaStats(Column(imputed, "Price"))
            size == SigmaStats(Column(imputed, "Size"))
        IN  \A p \in Positions(imputed) :
                ( /\ WithinThreeSigma(imputed.rows[p].Price, price)
                  /\ WithinThreeSigma(imputed.rows[p].Size, size) )
                => imputed.rows[p].idx \in Labels(data)

\* C10 witness: a row was removed, and a retained row is 3 or more standard
\* deviations from the Price mean recomputed on the retained rows, whose
\* standard deviation is not zero.
C10_Witness ==
    /\ pc = "univariate"
    /\ Len(data.rows) < Len(imputed.rows)
    /\ \E p \in Positions(data) : data.rows[p].Price # data.rows[1].Price
    /\ LET again == SigmaStats(Column(data, "Price"))
       IN  \E p \in Positions(data) : ~WithinThreeSigma(data.rows[p].Price, again)

=============================================================================
